---- MODULE Spec2Model ----
(***************************************************************************)
(* Model of the batch orchestrator, the crawl ledger and the normalizer    *)
(* (transform_gsmarena_to_formatted) of my.py.                             *)
(*                                                                         *)
(* One process runs at a time; a run is the __main__ block from the link   *)
(* discovery to "Task Completed", or to the point where an exception that  *)
(* nothing catches ends it.  The calls into the browser, the disk and the  *)
(* network either return or raise; where the source catches the exception  *)
(* the action goes on, where it does not the run is aborted.               *)
(*                                                                         *)
(* Text (device names, urls, the bytes of scraped_devices.csv) is a        *)
(* sequence of atoms: single characters, or a run of characters none of    *)
(* which the csv module or the file-name rule treats specially.  The line  *)
(* terminator "\r\n" the csv writer emits is the single atom NL.           *)
(***************************************************************************)
EXTENDS Integers, Sequences, FiniteSets, TLC

\* ---------------------------------------------------------------- bounds
MaxRuns == 2
MaxLinks == 2
MaxAppends == 3

\* ------------------------------------------------------- inputs (bounded)
None == "None"
\* the value of raw_data when scrape_device returned None
NoRecord == [url |-> None, name |-> None, image |-> None]
\* the value of formatted_data before the transform ran
NoFormatted == [source |-> NoRecord]
\* contents of a record file: not there, cut short by a failed write, or whole
NoFile == [status |-> "absent", data |-> NoRecord]
Partial == [status |-> "partial", data |-> NoRecord]
Written(data) == [status |-> "written", data |-> data]
COMMA == ","
QUOTE == "\""
NL == "\n"

\* urls Link Discovery can return (base_url + href); one holds a comma
Urls == {<<"u">>, <<"v", ",", "w">>}
\* what the extractor can read from a device page: the title, the src of the
\* main photo (None when the locator fails) and the rows of the spec tables
\* (none on a page without a spec table)
Pages == { [name |-> <<"A", "\"">>, image |-> <<"p", ".png">>,
            specs |-> "MEMORY" :> (<<"Internal">> :> <<"2", "5", "6", "GB", " ",
                                                      "1", "2", "GB", " ", "RAM">>
                                   @@ <<"Card", " ", "slot">> :> <<"No">>)],
           [name |-> <<"B", " ", "C">>, image |-> None, specs |-> <<>>] }
Names == {p.name : p \in Pages}

RECURSIVE SeqsUpTo(_, _)
SeqsUpTo(S, n) ==
    IF n = 0 THEN {<<>>}
    ELSE LET shorter == SeqsUpTo(S, n - 1)
         IN  shorter \cup {Append(s, x) : s \in shorter, x \in S}

LinkLists == SeqsUpTo(Urls, MaxLinks)

\* ------------------------------------------------------------ csv module
RECURSIVE DoubleQuotes(_)
DoubleQuotes(f) ==
    IF f = <<>> THEN <<>>
    ELSE (IF Head(f) = QUOTE THEN <<QUOTE, QUOTE>> ELSE <<Head(f)>>)
         \o DoubleQuotes(Tail(f))

\* csv.writer, QUOTE_MINIMAL: a field is quoted when it holds the delimiter,
\* the quote character or a line terminator; a lone empty field is quoted
CsvField(f, alone) ==
    IF (\E k \in DOMAIN f : f[k] \in {COMMA, QUOTE, NL}) \/ (alone /\ f = <<>>)
    THEN <<QUOTE>> \o DoubleQuotes(f) \o <<QUOTE>>
    ELSE f

RECURSIVE CsvJoin(_, _)
CsvJoin(row, alone) ==
    IF row = <<>> THEN <<>>
    ELSE IF Len(row) = 1 THEN CsvField(row[1], alone)
    ELSE CsvField(row[1], FALSE) \o <<COMMA>> \o CsvJoin(Tail(row), FALSE)

writerow(row) == CsvJoin(row, Len(row) = 1) \o <<NL>>

\* csv.reader: the parser's state machine over the characters of the file
RECURSIVE CsvParse(_, _, _, _, _, _)
CsvParse(s, k, st, field, row, rows) ==
    IF k > Len(s)
    THEN IF st = "START_RECORD" THEN rows
         ELSE Append(rows, Append(row, field))
    ELSE LET c == s[k] IN
      CASE st = "START_RECORD" ->
             IF c = NL
             THEN CsvParse(s, k + 1, "START_RECORD", <<>>, <<>>, Append(rows, <<>>))
             ELSE CsvParse(s, k, "START_FIELD", <<>>, <<>>, rows)
        [] st = "START_FIELD" ->
             IF c = NL
             THEN CsvParse(s, k + 1, "START_RECORD", <<>>, <<>>,
                           Append(rows, Append(row, <<>>)))
             ELSE IF c = QUOTE
             THEN CsvParse(s, k + 1, "IN_QUOTED_FIELD", <<>>, row, rows)
             ELSE IF c = COMMA
             THEN CsvParse(s, k + 1, "START_FIELD", <<>>, Append(row, <<>>), rows)
             ELSE CsvParse(s, k + 1, "IN_FIELD", <<c>>, row, rows)
        [] st = "IN_FIELD" ->
             IF c = NL
             THEN CsvParse(s, k + 1, "START_RECORD", <<>>, <<>>,
                           Append(rows, Append(row, field)))
             ELSE IF c = COMMA
             THEN CsvParse(s, k + 1, "START_FIELD", <<>>, Append(row, field), rows)
             ELSE CsvParse(s, k + 1, "IN_FIELD", Append(field, c), row, rows)
        [] st = "IN_QUOTED_FIELD" ->
             IF c = QUOTE
             THEN CsvParse(s, k + 1, "QUOTE_IN_QUOTED_FIELD", field, row, rows)
             ELSE CsvParse(s, k + 1, "IN_QUOTED_FIELD", Append(field, c), row, rows)
        [] OTHER ->   \* QUOTE_IN_QUOTED_FIELD
             IF c = QUOTE
             THEN CsvParse(s, k + 1, "IN_QUOTED_FIELD", Append(field, c), row, rows)
             ELSE IF c = COMMA
             THEN CsvParse(s, k + 1, "START_FIELD", <<>>, Append(row, field), rows)
             ELSE IF c = NL
             THEN CsvParse(s, k + 1, "START_RECORD", <<>>, <<>>,
                           Append(rows, Append(row, field)))
             ELSE CsvParse(s, k + 1, "IN_FIELD", Append(field, c), row, rows)

reader(text) == CsvParse(text, 1, "START_RECORD", <<>>, <<>>, <<>>)

\* ---------------------------------------------------------- crawl ledger
Header == << <<"Device Name">>, <<"URL">> >>

\* variant: the set is built from row[0], the device names
load_scraped_links_from_csv_FirstColumn(exists, text) ==
    IF ~exists THEN {}
    ELSE LET rows == reader(text)
         IN  IF rows = <<>> THEN {}
             ELSE {rows[k][1] : k \in {j \in 2..Len(rows) : Len(rows[j]) > 1}}

\* the set of urls recorded in the file; exists is os.path.exists
load_scraped_links_from_csv(exists, text) ==
    IF ~exists THEN {}
    ELSE LET rows == reader(text)
         IN  IF rows = <<>> THEN {}
             ELSE {rows[k][2] : k \in {j \in 2..Len(rows) : Len(rows[j]) > 1}}

\* variant: the file is opened with mode "w"
append_to_csv_Truncating(exists, text, device_name, url) ==
    (IF ~exists THEN writerow(Header) ELSE <<>>) \o writerow(<<device_name, url>>)

\* the bytes of the file after the call (mode "a")
append_to_csv(exists, text, device_name, url) ==
    text \o (IF ~exists THEN writerow(Header) ELSE <<>>)
         \o writerow(<<device_name, url>>)

\* ------------------------------------------------------------ file names
Reserved == {"\\", "/", "*", "?", ":", "\"", "<", ">", "|"}

RECURSIVE SafeName(_)
SafeName(name) ==
    IF name = <<>> THEN <<>>
    ELSE IF Head(name) \in Reserved THEN SafeName(Tail(name))
    ELSE <<(IF Head(name) = " " THEN "_" ELSE Head(name))>> \o SafeName(Tail(name))

SafeNames == {SafeName(n) : n \in Names}

\* os.path.splitext(image_url)[1] or ".jpg"
FileExtension(image_url) ==
    LET last == image_url[Len(image_url)]
    IN  IF Len(image_url) > 1 /\ last \in {".png", ".jpg"} THEN last ELSE ".jpg"

\* ------------------------------------------------------------------ diff
\* variant: the new links come out last-discovered first
RECURSIVE NewLinks_Reversed(_, _)
NewLinks_Reversed(links, known) ==
    IF links = <<>> THEN <<>>
    ELSE NewLinks_Reversed(Tail(links), known)
         \o (IF Head(links) \notin known THEN <<Head(links)>> ELSE <<>>)

RECURSIVE NewLinks(_, _)
NewLinks(links, known) ==
    IF links = <<>> THEN <<>>
    ELSE (IF Head(links) \notin known THEN <<Head(links)>> ELSE <<>>)
         \o NewLinks(Tail(links), known)

\* ------------------------------------------------------------------ text
\* Spec values and keys are sequences of atoms as well: a digit, a white-space
\* character, a punctuation mark, or a word the patterns match as a whole.
NBSP == "nbsp"
Whitespace == {" ", NL, NBSP}
Digits == {"0", "1", "2", "3", "4", "5", "6", "7", "8", "9"}

\* the atoms of the inputs that hold upper-case letters
Cased == {"No", "NO", "W", "Wired", "Wireless", "Nits", "(Peak)", "Non-removable",
          "Dedicated", "Li-Po", "OLED", "GB", "TB", "RAM", "Hz", "mAh"}

\* str.lower, atom by atom
Lower(a) ==
    CASE a = "No" -> "no"
      [] a = "NO" -> "no"
      [] a = "W" -> "w"
      [] a = "Wired" -> "wired"
      [] a = "Wireless" -> "wireless"
      [] a = "Nits" -> "nits"
      [] a = "(Peak)" -> "(peak)"
      [] a = "Non-removable" -> "non-removable"
      [] a = "Dedicated" -> "dedicated"
      [] a = "Li-Po" -> "li-po"
      [] a = "OLED" -> "oled"
      [] a = "GB" -> "gb"
      [] a = "TB" -> "tb"
      [] a = "RAM" -> "ram"
      [] a = "Hz" -> "hz"
      [] a = "mAh" -> "mah"
      [] OTHER -> a

lower(s) == [k \in DOMAIN s |-> Lower(s[k])]

\* str.upper on a match of f/\d+(\.\d+)?
upper(s) == [k \in DOMAIN s |-> IF s[k] = "f/" THEN "F/" ELSE s[k]]

\* a or b
Or(a, b) == IF a # <<>> THEN a ELSE b

\* str.split(sep): the pieces between the separators, one more than there
\* are separators
RECURSIVE split(_, _)
split(s, sep) ==
    IF \A k \in DOMAIN s : s[k] # sep THEN <<s>>
    ELSE LET at == CHOOSE k \in DOMAIN s :
                      s[k] = sep /\ \A j \in 1..(k - 1) : s[j] # sep
         IN  <<SubSeq(s, 1, at - 1)>> \o split(SubSeq(s, at + 1, Len(s)), sep)

\* str.strip(chars)
RECURSIVE strip_chars(_, _)
strip_chars(s, chars) ==
    IF s = <<>> THEN s
    ELSE IF Head(s) \in chars THEN strip_chars(Tail(s), chars)
    ELSE IF s[Len(s)] \in chars THEN strip_chars(SubSeq(s, 1, Len(s) - 1), chars)
    ELSE s

strip(s) == strip_chars(s, Whitespace)

\* the places where needle occurs in s
Occurrences(s, needle) ==
    {k \in 1..(Len(s) - Len(needle) + 1) : SubSeq(s, k, k + Len(needle) - 1) = needle}

\* needle in s
Contains(s, needle) == needle = <<>> \/ Occurrences(s, needle) # {}

\* str.replace(old, new): the occurrences of old, left to right and without
\* overlap, are replaced
RECURSIVE replace(_, _, _)
replace(s, old, new) ==
    IF Len(s) < Len(old) THEN s
    ELSE IF SubSeq(s, 1, Len(old)) = old
    THEN new \o replace(SubSeq(s, Len(old) + 1, Len(s)), old, new)
    ELSE <<Head(s)>> \o replace(Tail(s), old, new)

\* str.join
RECURSIVE join(_, _)
join(sep, parts) ==
    IF parts = <<>> THEN <<>>
    ELSE IF Len(parts) = 1 THEN parts[1]
    ELSE parts[1] \o sep \o join(sep, Tail(parts))

\* --------------------------------------------------------------------- re
\* A pattern is a sequence of pieces: one atom of a set, a run of one or more
\* (or of zero or more) atoms of a set, or an optional sub-pattern.
One(S) == [rep |-> "1", set |-> S, sub |-> <<>>]
Plus(S) == [rep |-> "+", set |-> S, sub |-> <<>>]
Star(S) == [rep |-> "*", set |-> S, sub |-> <<>>]
Opt(pattern) == [rep |-> "?", set |-> {}, sub |-> pattern]

\* the length of the run of atoms of S that starts at position k
RECURSIVE Run(_, _, _)
Run(s, k, S) == IF k <= Len(s) /\ s[k] \in S THEN 1 + Run(s, k + 1, S) ELSE 0

\* the positions right after a match of the pattern that starts at k
RECURSIVE Ends(_, _, _)
Ends(pattern, s, k) ==
    IF pattern = <<>> THEN {k}
    ELSE LET p == Head(pattern)
             rest == Tail(pattern)
         IN  CASE p.rep = "1" ->
                    IF k <= Len(s) /\ s[k] \in p.set THEN Ends(rest, s, k + 1) ELSE {}
               [] p.rep = "+" ->
                    UNION {Ends(rest, s, j) : j \in (k + 1)..(k + Run(s, k, p.set))}
               [] p.rep = "*" ->
                    UNION {Ends(rest, s, j) : j \in k..(k + Run(s, k, p.set))}
               [] OTHER ->
                    Ends(rest, s, k) \cup UNION {Ends(rest, s, j) : j \in Ends(p.sub, s, k)}

Max(S) == CHOOSE x \in S : \A y \in S : y <= x

NoMatch == [found |-> FALSE, start |-> 0, end |-> 0]

\* re.search from position from on: the leftmost match, as long as the
\* repetitions allow; end is the position right after it
search_from(pattern, s, from) ==
    LET starts == {k \in from..(Len(s) + 1) : Ends(pattern, s, k) # {}}
    IN  IF starts = {} THEN NoMatch
        ELSE LET k == CHOOSE x \in starts : \A y \in starts : x <= y
             IN  [found |-> TRUE, start |-> k, end |-> Max(Ends(pattern, s, k))]

search(pattern, s) == search_from(pattern, s, 1)

\* the text a pattern matches at position k (a group that opens at k)
group_at(pattern, s, k) == SubSeq(s, k, Max(Ends(pattern, s, k)) - 1)

\* match.group(0)
group0(s, m) == SubSeq(s, m.start, m.end - 1)

\* atoms that equal a word when case is ignored
AnyCase(word) == {word} \cup {a \in Cased : Lower(a) = word}

\* ------------------------------------------------------------- normalizer
\* dict.get(key, default)
Get(dict, key, default) == IF key \in DOMAIN dict THEN dict[key] ELSE default

\* variant: a key that is not there yields the key
get_spec_KeyDefault(data, category, key, default) ==
    LET nbsp_key == replace(key, <<" ", " ">>, <<NBSP>>)
    IN  Get(Get(Get(data, "specs", <<>>), category, <<>>), nbsp_key, key)

\* variant: the key is looked up as it is given
get_spec_PlainKey(data, category, key, default) ==
    Get(Get(Get(data, "specs", <<>>), category, <<>>), key, default)

\* def get_spec(category, key, default=""), data being the record of the
\* enclosing call
get_spec(data, category, key, default) ==
    LET nbsp_key == replace(key, <<" ", " ">>, <<NBSP>>)
    IN  Get(Get(Get(data, "specs", <<>>), category, <<>>), nbsp_key, default)

Decimal == <<Plus(Digits), Opt(<<One({"."}), Plus(Digits)>>)>>

\* variant: the chain of the main camera starts at "Single"
main_cam_spec_SingleFirst(data) ==
    Or(Or(Or(get_spec(data, "MAIN CAMERA", <<"Single">>, <<>>),
             get_spec(data, "MAIN CAMERA", <<"Dual">>, <<>>)),
          get_spec(data, "MAIN CAMERA", <<"Quad">>, <<>>)),
       get_spec(data, "MAIN CAMERA", <<"Triple">>, <<>>))

main_cam_spec(data) ==
    Or(Or(Or(get_spec(data, "MAIN CAMERA", <<"Triple">>, <<>>),
             get_spec(data, "MAIN CAMERA", <<"Quad">>, <<>>)),
          get_spec(data, "MAIN CAMERA", <<"Dual">>, <<>>)),
       get_spec(data, "MAIN CAMERA", <<"Single">>, <<>>))

front_cam_spec(data) ==
    Or(get_spec(data, "SELFIE CAMERA", <<"Single">>, <<>>),
       get_spec(data, "SELFIE CAMERA", <<"Dual">>, <<>>))

camera_data(data) ==
    LET main == main_cam_spec(data)
        lines == split(main, NL)
        cam_specs == [k \in DOMAIN lines |-> strip(lines[k])]
        aperture_match == search(<<One({"f/"})>> \o Decimal, cam_specs[1])
        focal_length_match ==
            search(<<Plus(Digits), Star(Whitespace), One({"mm"})>>, cam_specs[1])
        specs_str ==
            (IF aperture_match.found
             THEN << <<"Aperture size: ">> \o upper(group0(cam_specs[1], aperture_match)) >>
             ELSE <<>>)
            \o (IF focal_length_match.found
                THEN << <<"Focal Length: ">> \o group0(cam_specs[1], focal_length_match) >>
                ELSE <<>>)
    IN  "Rear:" :> (IF main # <<>> THEN lines[1] ELSE <<>>)
     @@ "Flash:" :> get_spec(data, "MAIN CAMERA", <<"Features">>, <<>>)
     @@ "Front:" :> front_cam_spec(data)
     @@ "Folded:" :> <<>>
     @@ "Main camera:" :> (IF main # <<>> THEN cam_specs[1] ELSE <<>>)
     @@ "Second camera:" :> (IF main # <<>> /\ Len(cam_specs) > 1 THEN cam_specs[2] ELSE <<>>)
     @@ "Third camera:" :> (IF main # <<>> /\ Len(cam_specs) > 2 THEN cam_specs[3] ELSE <<>>)
     @@ "Specifications:" :> (IF main # <<>> THEN join(<<" ">>, specs_str) ELSE <<>>)
     @@ "Video recording:" :> get_spec(data, "MAIN CAMERA", <<"Video">>, <<>>)

design_data(data) ==
       "Keys:" :> <<"Right: Volume control, Lock/Unlock key">>
    @@ "Colors:" :> get_spec(data, "MISC", <<"Colors">>, <<>>)
    @@ "Folded:" :> get_spec(data, "BODY", <<"Folded">>, <<>>)
    @@ "Weight:" :> get_spec(data, "BODY", <<"Weight">>, <<>>)
    @@ "Materials:" :> get_spec(data, "BODY", <<"Build">>, <<>>)
    @@ "Biometrics:" :> get_spec(data, "FEATURES", <<"Sensors">>, <<>>)
    @@ "Dimensions:" :> get_spec(data, "BODY", <<"Dimensions">>, <<>>)
    @@ "Resistance:" :> Or(get_spec(data, "BODY", <<" ", " ">>, <<>>),
                           get_spec(data, "BODY", <<>>, <<>>))

SpeedPattern == Decimal \o <<One(AnyCase("w"))>>

battery_data(data) ==
    LET battery_type_str == get_spec(data, "BATTERY", <<"Type">>, <<>>)
        capacity_match ==
            search(<<Plus(Digits), Star(Whitespace), One({"mAh"})>>, battery_type_str)
        capacity == IF capacity_match.found
                    THEN strip(group0(battery_type_str, capacity_match)) ELSE <<>>
        type_info ==
            IF capacity_match.found
            THEN strip_chars(replace(battery_type_str,
                                     group0(battery_type_str, capacity_match), <<>>),
                             {",", " "})
            ELSE battery_type_str
        charging_str == get_spec(data, "BATTERY", <<"Charging">>, <<>>)
        wired_speed_match ==
            search(SpeedPattern \o <<Plus(Whitespace), One(AnyCase("wired"))>>, charging_str)
        wireless_speed_match ==
            search(SpeedPattern \o <<Plus(Whitespace), One(AnyCase("wireless"))>>, charging_str)
        speeds ==
            (IF wired_speed_match.found
             THEN << <<"Wired: ">> \o group_at(SpeedPattern, charging_str, wired_speed_match.start) >>
             ELSE <<>>)
            \o (IF wireless_speed_match.found
                THEN << <<"Wireless: ">>
                        \o group_at(SpeedPattern, charging_str, wireless_speed_match.start) >>
                ELSE <<>>)
    IN  "Type:" :> (IF Contains(lower(type_info), <<"non-removable">>)
                    THEN type_info \o <<", Not user replaceable">> ELSE type_info)
     @@ "Capacity:" :> capacity
     @@ "Charging:" :> charging_str
     @@ "Max charge speed:" :> join(<<>>, speeds)

PercentPattern == Decimal \o <<One({"%"})>>

display_data(data) ==
    LET display_type_str == get_spec(data, "DISPLAY", <<"Type">>, <<>>)
        size_str == get_spec(data, "DISPLAY", <<"Size">>, <<>>)
        refresh_rate_match == search(<<Plus(Digits), One({"Hz"})>>, display_type_str)
        s2b_match ==
            search(PercentPattern \o <<Star(Whitespace), One({"(screen-to-body ratio)"})>>,
                   size_str)
        brightness_match ==
            search(<<Plus(Digits), Star(Whitespace), One(AnyCase("nits")),
                     Star(Whitespace), One(AnyCase("(peak)"))>>, display_type_str)
    IN  "Size:" :> strip(split(size_str, ",")[1])
     @@ "Features:" :> get_spec(data, "FEATURES", <<"Sensors">>, <<>>)
     @@ "Resolution:" :> get_spec(data, "DISPLAY", <<"Resolution">>, <<>>)
     @@ "Technology:" :> split(display_type_str, ",")[1]
     @@ "Refresh rate:" :> (IF refresh_rate_match.found
                            THEN group0(display_type_str, refresh_rate_match) ELSE <<>>)
     @@ "Screen-to-body:" :> (IF s2b_match.found
                              THEN group_at(PercentPattern, size_str, s2b_match.start) \o <<" %">>
                              ELSE <<>>)
     @@ "Peak brightness:" :> (IF brightness_match.found
                               THEN group_at(<<Plus(Digits)>>, display_type_str,
                                             brightness_match.start) \o <<" cd/m2 (nit)">>
                               ELSE <<>>)
     @@ "Front cover display:" :> Or(get_spec(data, "DISPLAY", <<"Secondary", " ", "display">>, <<>>),
                                     <<>>)

cellular_data(data) ==
       "Technology:" :> get_spec(data, "NETWORK", <<"Technology">>, <<>>)
    @@ "2G bands:" :> get_spec(data, "NETWORK", <<"2G", " ", "bands">>, <<>>)
    @@ "3G bands:" :> get_spec(data, "NETWORK", <<"3G", " ", "bands">>, <<>>)
    @@ "4G bands:" :> get_spec(data, "NETWORK", <<"4G", " ", "bands">>, <<>>)
    @@ "5G bands:" :> get_spec(data, "NETWORK", <<"5G", " ", "bands">>, <<>>)
    @@ "SIM type:" :> get_spec(data, "BODY", <<"SIM">>, <<>>)

StoragePattern == <<Plus(Digits), Star(Whitespace), One({"GB", "TB"})>>
RamPattern == <<Plus(Digits), Star(Whitespace), One({"GB"})>>

\* variant: the first size of the text is the storage, whatever follows it
storage_and_ram_FirstSize(internal_mem) ==
    LET storage_match == search(StoragePattern, internal_mem)
        ram_match == search(RamPattern \o <<Plus(Whitespace), One({"RAM"})>>, internal_mem)
    IN  [storage |-> IF storage_match.found
                     THEN group0(internal_mem, storage_match) ELSE <<>>,
         ram |-> IF ram_match.found
                 THEN group_at(RamPattern, internal_mem, ram_match.start) ELSE <<>>]

\* storage_ram_pairs = re.findall(...); if storage_ram_pairs: ... else: ...
storage_and_ram(internal_mem) ==
    LET pair == search(StoragePattern \o <<Plus(Whitespace)>> \o RamPattern
                          \o <<Plus(Whitespace), One({"RAM"})>>, internal_mem)
        storage_match == search(StoragePattern, internal_mem)
        ram_match == search(RamPattern \o <<Plus(Whitespace), One({"RAM"})>>, internal_mem)
    IN  IF pair.found
        THEN LET storage == group_at(StoragePattern, internal_mem, pair.start)
                 gap == pair.start + Len(storage)
             IN  [storage |-> storage,
                  ram |-> group_at(RamPattern, internal_mem,
                                   gap + Run(internal_mem, gap, Whitespace))]
        ELSE [storage |-> IF storage_match.found
                          THEN group0(internal_mem, storage_match) ELSE <<>>,
              ram |-> IF ram_match.found
                      THEN group_at(RamPattern, internal_mem, ram_match.start) ELSE <<>>]

\* variant: a missing Card slot row counts as expandable
not_expandable_NoOnly(card_slot) == lower(card_slot) = <<"no">>

\* get_spec("MEMORY", "Card slot").lower() in ["no", ""]
not_expandable(card_slot) == lower(card_slot) \in {<<"no">>, <<>>}

hardware_data(data) ==
    LET found == storage_and_ram(get_spec(data, "MEMORY", <<"Internal">>, <<>>))
    IN  "OS:" :> get_spec(data, "PLATFORM", <<"OS">>, <<>>)
     @@ "GPU:" :> get_spec(data, "PLATFORM", <<"GPU">>, <<>>)
     @@ "RAM:" :> found.ram
     @@ "Processor:" :> get_spec(data, "PLATFORM", <<"Chipset">>, <<>>)
     @@ "Device type:" :> <<"Smartphone">>
     @@ "Internal storage:" :>
           (IF not_expandable(get_spec(data, "MEMORY", <<"Card", " ", "slot">>, <<>>))
            THEN found.storage \o <<" (UFS)", ", not expandable">>
            ELSE found.storage \o <<" (UFS)">>)

multimedia_data(data) ==
       "Speakers:" :> get_spec(data, "SOUND", <<"Loudspeaker">>, <<>>)
    @@ "Headphones:" :> get_spec(data, "SOUND", <<"3.5mm", " ", "jack">>, <<>>)
    @@ "Screen mirroring:" :> <<"Wireless screen share">>
    @@ "Additional microphone(s):" :>
          (IF Contains(lower(get_spec(data, "SOUND", <<" ", " ">>, <<>>)),
                       <<"dedicated", " ", "mic">>)
           THEN <<"Noise cancellation">> ELSE <<>>)

connectivity_data(data) ==
    LET other_features ==
            (IF get_spec(data, "COMMS", <<"NFC">>, <<>>) # <<>> THEN << <<"NFC">> >> ELSE <<>>)
            \o (IF get_spec(data, "COMMS", <<"Infrared", " ", "port">>, <<>>) # <<>>
                THEN << <<"Infrared">> >> ELSE <<>>)
    IN  "USB:" :> get_spec(data, "COMMS", <<"USB">>, <<>>)
     @@ "Other:" :> join(<<",", " ">>, other_features)
     @@ "Wi-Fi:" :> get_spec(data, "COMMS", <<"WLAN">>, <<>>)
     @@ "Sensors:" :> get_spec(data, "FEATURES", <<"Sensors">>, <<>>)
     @@ "Features:" :> get_spec(data, "COMMS", <<"USB">>, <<>>)
     @@ "Location:" :> get_spec(data, "COMMS", <<"Positioning">>, <<>>)
     @@ "Bluetooth:" :> get_spec(data, "COMMS", <<"Bluetooth">>, <<>>)

\* variant: a section is left out when the record has no table for it
transform_gsmarena_to_formatted_Sparse(data) ==
    LET specs == Get(data, "specs", <<>>)
    IN     (IF "MAIN CAMERA" \in DOMAIN specs THEN "Camera" :> camera_data(data) ELSE <<>>)
        @@ "Design" :> design_data(data)
        @@ "Battery" :> battery_data(data)
        @@ "Display" :> display_data(data)
        @@ "Cellular" :> cellular_data(data)
        @@ "Hardware" :> hardware_data(data)
        @@ "Multimedia" :> multimedia_data(data)
        @@ "Connectivity & Features" :> connectivity_data(data)

transform_gsmarena_to_formatted(data) ==
       "Camera" :> camera_data(data)
    @@ "Design" :> design_data(data)
    @@ "Battery" :> battery_data(data)
    @@ "Display" :> display_data(data)
    @@ "Cellular" :> cellular_data(data)
    @@ "Hardware" :> hardware_data(data)
    @@ "Multimedia" :> multimedia_data(data)
    @@ "Connectivity & Features" :> connectivity_data(data)

\* ------------------------------------------ the normalizer alone: inputs
MaxLines == 3

\* a key the table does not have
Absent == <<"(absent)">>

\* the table with the rows whose value is not Absent
Rows(table) == [key \in {k \in DOMAIN table : table[k] # Absent} |-> table[key]]

\* a camera descriptor of n lines; the white space around a line is the page's
CameraLine(tag, k) ==
    CASE k = 1 -> <<" ", tag, " ", "f/", "1", ".", "8", " ", "2", "4", "mm">>
      [] k = 2 -> <<tag, " ", "ultrawide", " ">>
      [] OTHER -> <<tag, " ", "macro">>

CameraText(tag, n) == join(<<NL>>, [k \in 1..n |-> CameraLine(tag, k)])

\* the rows of MAIN CAMERA and SELFIE CAMERA
CameraTables ==
    { "MAIN CAMERA" :> Rows(<<"Triple">> :> t @@ <<"Quad">> :> q
                            @@ <<"Dual">> :> d @@ <<"Single">> :> s)
      @@ "SELFIE CAMERA" :> Rows(<<"Single">> :> fs @@ <<"Dual">> :> fd) :
        t \in {Absent, CameraText("t", 3)},
        q \in {Absent, <<>>, CameraText("q", 1)},
        d \in {Absent, <<>>} \cup {CameraText("d", n) : n \in 1..MaxLines},
        s \in {Absent, CameraText("s", 2)},
        fs \in {Absent, <<"fs">>},
        fd \in {Absent, <<"fd">>} }

InternalTexts ==
    { <<>>,
      <<"2", "5", "6", "GB", " ", "1", "2", "GB", " ", "RAM">>,
      <<"1", "2", "8", "GB", " ", "8", "GB", " ", "RAM", ",", " ",
        "2", "5", "6", "GB", " ", "1", "2", "GB", " ", "RAM">>,
      <<"1", "TB", " ", "1", "6", " ", "GB", " ", " ", "RAM">>,
      <<"2", "5", "6", "GB", ",", " ", "1", "2", "GB", " ", "RAM">>,
      <<"1", "2", "GB", " ", "RAM">>,
      <<"2", "5", "6", " ", "GB">>,
      <<"2", "5", "6", "GB", ",", " ", "1", "2", "GB", " ", "RAM", " ",
        "1", "TB", " ", "8", "GB", " ", "RAM">>,
      <<"1", "TB", " ", "RAM">>,
      <<"x">> }

CardSlots == {Absent, <<>>, <<"No">>, <<"NO">>, <<"no">>, <<"microSDXC">>,
              <<"no", " ", "x">>}

\* the rows of MEMORY
MemoryTables ==
    { "MEMORY" :> Rows(<<"Internal">> :> internal @@ <<"Card", " ", "slot">> :> slot) :
        internal \in InternalTexts \cup {Absent}, slot \in CardSlots }

\* rows whose label cell is blank: the key is "", a non-breaking space or,
\* in a record not made by the extractor, two plain spaces
BlankKeyTables ==
    { cat :> Rows(<<NBSP>> :> a @@ <<>> :> b @@ <<" ", " ">> :> c @@ <<"SIM">> :> <<"Nano-SIM">>) :
        cat \in {"BODY", "SOUND"},
        a \in {Absent, <<>>, <<"IP68">>, <<"Dedicated", " ", "mic">>},
        b \in {Absent, <<"IP67">>, <<"dedicated", " ", "mic">>},
        c \in {Absent, <<"IP65">>} }

OtherTables ==
    { <<>>,
      "BODY" :> <<>>,
      "MAIN CAMERA" :> <<>> @@ "MEMORY" :> <<>>,
      "BATTERY" :> (<<"Type">> :> <<"Li-Po", " ", "5", "0", "0", "0", " ", "mAh", ",", " ",
                                   "non-removable">>
                    @@ <<"Charging">> :> <<"4", "5", "W", " ", "wired", NL,
                                          "1", "5", "W", " ", "wireless">>),
      "DISPLAY" :> (<<"Type">> :> <<"OLED", ",", " ", "1", "2", "0", "Hz", ",", " ",
                                   "1", "2", "0", "0", " ", "nits", " ", "(peak)">>
                    @@ <<"Size">> :> <<"6", ".", "7", " ", "inches", ",", " ", "8", "9", ".", "8",
                                      "%", " ", "(screen-to-body ratio)">>),
      "COMMS" :> (<<"NFC">> :> <<"Yes">> @@ <<"USB">> :> <<"USB Type-C">>) }

SpecTables == CameraTables \cup MemoryTables \cup BlankKeyTables \cup OtherTables

\* the records scrape_device can return for a page with these tables
RawRecords ==
    { [url |-> <<"u">>, name |-> <<"A", "\"">>, image |-> None, specs |-> specs] :
        specs \in SpecTables }

\* ---------------------------------------------------------- orchestrator
VARIABLES
    pc,                  \* the statement of __main__ executed next
    run,                 \* number of runs started so far
    token,               \* TELEGRAM_BOT_TOKEN and TELEGRAM_CHAT_ID are both set
    all_links,
    scraped_links,
    new_links_to_scrape,
    i,                   \* position of the current link in new_links_to_scrape
    raw_data,
    formatted_data,
    image_filename,
    csv_exists,          \* os.path.exists(CSV_FILE_NAME)
    csv_text,            \* the bytes of scraped_devices.csv
    file_exists,         \* the local of append_to_csv while a call is under way
    raw_files,           \* raw_data/<safe_name>.json
    formatted_files,     \* formatted_data/<safe_name>.json
    image_files,         \* images/<safe_name><ext>
    img,                 \* outcome of the image step of the current item
    sent,                \* the requests of the notification step of the last item
    log,                 \* history: the steps of this run, <<item, step>>
    persisted            \* history: urls whose two record files were written

vars == <<pc, run, token, all_links, scraped_links, new_links_to_scrape, i,
          raw_data, formatted_data, image_filename, csv_exists, csv_text,
          raw_files, formatted_files, image_files, img, sent, log, persisted,
          file_exists>>

files == <<csv_exists, csv_text, raw_files, formatted_files, image_files>>

disk == <<raw_files, formatted_files, image_files>>

locals == <<raw_data, formatted_data, image_filename>>

safe_name == SafeName(raw_data.name)

link == new_links_to_scrape[i]

\* variant: the row is logged as soon as the record is normalized
NextStep_AppendFirst(step) ==
    CASE step = "scrape" -> "transform"
      [] step = "transform" -> "append"
      [] step = "append" -> "write_raw"
      [] step = "write_raw" -> "write_fmt"
      [] step = "write_fmt" -> "image"
      [] step = "image" -> "notify"

\* variant: the raw record is saved before it is normalized
NextStep_SaveFirst(step) ==
    CASE step = "scrape" -> "write_raw"
      [] step = "write_raw" -> "transform"
      [] step = "transform" -> "write_fmt"
      [] step = "write_fmt" -> "image"
      [] step = "image" -> "append"
      [] step = "append" -> "notify"

\* the statement that follows a completed step of the loop body
NextStep(step) ==
    CASE step = "scrape" -> "transform"
      [] step = "transform" -> "write_raw"
      [] step = "write_raw" -> "write_fmt"
      [] step = "write_fmt" -> "image"
      [] step = "image" -> "append"
      [] step = "append" -> "notify"

\* the for statement: the next link, or the end of the with block
NextIteration(k, n) == IF k < n THEN "scrape" ELSE "exit"

\* an exception that leaves json.dump/open or scrape_device is caught nowhere
Uncaught == "aborted"

Init ==
    /\ pc = "idle"
    /\ run = 0
    /\ token = FALSE
    /\ all_links = <<>>
    /\ scraped_links = {}
    /\ new_links_to_scrape = <<>>
    /\ i = 0
    /\ raw_data = NoRecord
    /\ formatted_data = NoFormatted
    /\ image_filename = None
    /\ csv_exists = FALSE
    /\ csv_text = <<>>
    /\ raw_files = [f \in SafeNames |-> NoFile]
    /\ formatted_files = [f \in SafeNames |-> NoFile]
    /\ image_files = {}
    /\ img = "none"
    /\ sent = <<>>
    /\ log = <<>>
    /\ persisted = {}
    /\ file_exists = FALSE

\* a process is started: module globals are read from the environment
StartRun ==
    /\ pc \in {"idle", "done", "aborted"}
    /\ run < MaxRuns
    /\ run' = run + 1
    /\ token' \in BOOLEAN
    /\ pc' = "links"
    /\ all_links' = <<>>
    /\ scraped_links' = {}
    /\ new_links_to_scrape' = <<>>
    /\ i' = 0
    /\ raw_data' = NoRecord
    /\ formatted_data' = NoFormatted
    /\ image_filename' = None
    /\ img' = "none"
    /\ sent' = <<>>
    /\ log' = <<>>
    /\ UNCHANGED <<files, persisted>>
    /\ UNCHANGED file_exists

\* all_links = scrape_latest_device_links(playwright); if not all_links
Discover ==
    /\ pc = "links"
    /\ \E links \in LinkLists :
         /\ all_links' = links
         /\ pc' = IF links = <<>> THEN "exit" ELSE "load"
    /\ UNCHANGED <<run, token, scraped_links, new_links_to_scrape, i, locals,
                   files, img, sent, log, persisted>>
    /\ UNCHANGED file_exists

\* scraped_links = load...; new_links_to_scrape = [...]; if not new_links...
Load ==
    /\ pc = "load"
    /\ scraped_links' = load_scraped_links_from_csv(csv_exists, csv_text)
    /\ new_links_to_scrape' = NewLinks(all_links, scraped_links')
    /\ i' = 1
    /\ pc' = IF new_links_to_scrape' = <<>> THEN "exit" ELSE "scrape"
    /\ UNCHANGED <<run, token, all_links, locals, files, img, sent, log, persisted>>
    /\ UNCHANGED file_exists

\* raw_data = scrape_device(context, link); if raw_data
ScrapeDevice ==
    /\ pc = "scrape"
    /\ formatted_data' = NoFormatted
    /\ image_filename' = None
    /\ img' = "none"
    /\ sent' = <<>>
    /\ \/ \E page \in Pages :
            /\ raw_data' = [url |-> link, name |-> page.name, image |-> page.image,
                            specs |-> page.specs]
            /\ log' = Append(log, <<i, "scrape">>)
            /\ pc' = NextStep("scrape")
            /\ i' = i
       \/ \* goto, wait_for_selector or inner_text raised; the screenshot was taken
          /\ raw_data' = NoRecord
          /\ log' = Append(log, <<i, "extract_failed">>)
          /\ pc' = NextIteration(i, Len(new_links_to_scrape))
          /\ i' = i + 1
       \/ \* ... and page.screenshot in the except block raised as well
          /\ raw_data' = NoRecord
          /\ log' = Append(log, <<i, "extract_failed">>)
          /\ pc' = Uncaught
          /\ i' = i
    /\ UNCHANGED <<run, token, all_links, scraped_links, new_links_to_scrape,
                   files, persisted>>
    /\ UNCHANGED file_exists

\* formatted_data = transform_gsmarena_to_formatted(raw_data); safe_name = ...
Transform ==
    /\ pc = "transform"
    /\ formatted_data' = transform_gsmarena_to_formatted(raw_data)
    /\ log' = Append(log, <<i, "transform">>)
    /\ pc' = NextStep("transform")
    /\ UNCHANGED <<run, token, all_links, scraped_links, new_links_to_scrape, i,
                   raw_data, image_filename, files, img, sent, persisted>>
    /\ UNCHANGED file_exists

\* with open(raw_filename, "w") as f: json.dump(raw_data, f, ...)
WriteRaw ==
    /\ pc = "write_raw"
    /\ \/ /\ raw_files' = [raw_files EXCEPT ![safe_name] = Written(raw_data)]
          /\ log' = Append(log, <<i, "write_raw">>)
          /\ pc' = NextStep("write_raw")
       \/ \* open raised: nothing was written
          /\ raw_files' = raw_files
          /\ log' = Append(log, <<i, "persist_failed">>)
          /\ pc' = Uncaught
       \/ \* the write raised after open truncated the file
          /\ raw_files' = [raw_files EXCEPT ![safe_name] = Partial]
          /\ log' = Append(log, <<i, "persist_failed">>)
          /\ pc' = Uncaught
    /\ UNCHANGED <<run, token, all_links, scraped_links, new_links_to_scrape, i,
                   locals, csv_exists, csv_text, formatted_files, image_files,
                   img, sent, persisted>>
    /\ UNCHANGED file_exists

\* with open(formatted_filename, "w") as f: json.dump(formatted_data, f, ...)
WriteFormatted ==
    /\ pc = "write_fmt"
    /\ \/ /\ formatted_files' = [formatted_files EXCEPT ![safe_name] = Written(formatted_data)]
          /\ log' = Append(log, <<i, "write_fmt">>)
          /\ persisted' = IF \E k \in DOMAIN log : log[k] = <<i, "write_raw">>
                          THEN persisted \cup {link} ELSE persisted
          /\ pc' = NextStep("write_fmt")
       \/ /\ formatted_files' = formatted_files
          /\ log' = Append(log, <<i, "persist_failed">>)
          /\ persisted' = persisted
          /\ pc' = Uncaught
       \/ /\ formatted_files' = [formatted_files EXCEPT ![safe_name] = Partial]
          /\ log' = Append(log, <<i, "persist_failed">>)
          /\ persisted' = persisted
          /\ pc' = Uncaught
    /\ UNCHANGED <<run, token, all_links, scraped_links, new_links_to_scrape, i,
                   locals, csv_exists, csv_text, raw_files, image_files, img, sent>>
    /\ UNCHANGED file_exists

\* variant: the function has no try/except
AfterDownload_Raises(outcome) ==
    IF outcome = "failed" THEN Uncaught ELSE NextStep("image")

\* download_and_resize_image: every exception of the download, the resize and
\* the save is caught inside the function, which then returns normally
AfterDownload(outcome) == NextStep("image")

\* image_filename = None; image_url = raw_data.get("image"); if image_url: ...
DownloadImage ==
    /\ pc = "image"
    /\ \/ /\ raw_data.image = None
          /\ image_filename' = None
          /\ img' = "absent"
          /\ image_files' = image_files
          /\ pc' = NextStep("image")
       \/ /\ raw_data.image # None
          /\ image_filename' = <<safe_name, FileExtension(raw_data.image)>>
          /\ \E outcome \in {"saved", "failed"} :
               /\ img' = outcome
               /\ image_files' = IF outcome = "saved"
                                 THEN image_files \cup {image_filename'}
                                 ELSE image_files
               /\ pc' = AfterDownload(outcome)
    /\ log' = Append(log, <<i, "image">>)
    /\ UNCHANGED <<run, token, all_links, scraped_links, new_links_to_scrape, i,
                   raw_data, formatted_data, csv_exists, csv_text, raw_files,
                   formatted_files, sent, persisted>>
    /\ UNCHANGED file_exists

\* append_to_csv(raw_data["name"], link)
AppendToCsv ==
    /\ pc = "append"
    /\ csv_text' = append_to_csv(csv_exists, csv_text, raw_data.name, link)
    /\ csv_exists' = TRUE
    /\ log' = Append(log, <<i, "append">>)
    /\ pc' = NextStep("append")
    /\ UNCHANGED <<run, token, all_links, scraped_links, new_links_to_scrape, i,
                   locals, disk, img, sent, persisted>>
    /\ UNCHANGED file_exists

\* message = f"... {device_name} ... {device_url}": the caption of the photo
\* and the text of the plain message
Message(device_name, device_url) ==
    <<"Found New Device!", "Name:">> \o device_name \o <<"Link:">> \o device_url

\* variant: a failed sendPhoto ends the function
Attempts_NoFallback(configured, has_photo, message) ==
    IF ~configured THEN {<<>>}
    ELSE IF has_photo
         THEN {<<[api |-> "sendPhoto", message |-> message, ok |-> b]>> : b \in BOOLEAN}
         ELSE {<<[api |-> "sendMessage", message |-> message, ok |-> b]>> : b \in BOOLEAN}

\* the requests send_telegram_notification can make, each with its outcome:
\* ok when requests.post and raise_for_status returned, else they raised
Attempts(configured, has_photo, message) ==
    IF ~configured THEN {<<>>}
    ELSE LET text == {<<[api |-> "sendMessage", message |-> message, ok |-> b]>> :
                         b \in BOOLEAN}
         IN  IF has_photo
             THEN {<<[api |-> "sendPhoto", message |-> message, ok |-> TRUE]>>}
                  \cup {<<[api |-> "sendPhoto", message |-> message, ok |-> FALSE]>> \o t :
                           t \in text}
             ELSE text

\* send_telegram_notification(raw_data["name"], link, image_filename)
Notify ==
    /\ pc = "notify"
    /\ sent' \in Attempts(token,
                         image_filename # None /\ image_filename \in image_files,
                         Message(raw_data.name, link))
    /\ log' = Append(log, <<i, "notify">>)
    /\ pc' = NextIteration(i, Len(new_links_to_scrape))
    /\ i' = i + 1
    /\ UNCHANGED <<run, token, all_links, scraped_links, new_links_to_scrape,
                   locals, files, img, persisted>>
    /\ UNCHANGED file_exists

\* context.close(); browser.close(); print("--- Task Completed ---")
Exit ==
    /\ pc = "exit"
    /\ pc' = "done"
    /\ UNCHANGED <<run, token, all_links, scraped_links, new_links_to_scrape, i,
                   locals, files, img, sent, log, persisted>>
    /\ UNCHANGED file_exists

Next ==
    \/ StartRun
    \/ Discover
    \/ Load
    \/ ScrapeDevice
    \/ Transform
    \/ WriteRaw
    \/ WriteFormatted
    \/ DownloadImage
    \/ AppendToCsv
    \/ Notify
    \/ Exit

Spec == Init /\ [][Next]_vars

\* ------------------------------------------------- the normalizer alone
\* the orchestrator holds a record scrape_device returned for the first link
TransformInit ==
    /\ pc = "transform"
    /\ raw_data \in RawRecords
    /\ run = 1
    /\ token = FALSE
    /\ all_links = <<raw_data.url>>
    /\ scraped_links = {}
    /\ new_links_to_scrape = <<raw_data.url>>
    /\ i = 1
    /\ formatted_data = NoFormatted
    /\ image_filename = None
    /\ csv_exists = FALSE
    /\ csv_text = <<>>
    /\ raw_files = [f \in SafeNames |-> NoFile]
    /\ formatted_files = [f \in SafeNames |-> NoFile]
    /\ image_files = {}
    /\ img = "none"
    /\ sent = <<>>
    /\ log = <<<<1, "scrape">>>>
    /\ persisted = {}
    /\ file_exists = FALSE

TransformNext == Transform

TransformSpec == TransformInit /\ [][TransformNext]_vars

\* ------------------------------------------- the ledger operations alone
\* the states scraped_devices.csv can be found in before any row is written
LedgerFiles == { [exists |-> FALSE, text |-> <<>>],
                 [exists |-> TRUE, text |-> <<>>],
                 [exists |-> TRUE, text |-> writerow(Header)] }

LedgerInit ==
    /\ pc = "ledger_ready"
    /\ \E f \in LedgerFiles : csv_exists = f.exists /\ csv_text = f.text
    /\ run = 0
    /\ token = FALSE
    /\ all_links = <<>>
    /\ scraped_links = {}
    /\ new_links_to_scrape = <<>>
    /\ i = 0
    /\ raw_data = NoRecord
    /\ formatted_data = NoFormatted
    /\ image_filename = None
    /\ raw_files = [f \in SafeNames |-> NoFile]
    /\ formatted_files = [f \in SafeNames |-> NoFile]
    /\ image_files = {}
    /\ img = "none"
    /\ sent = <<>>
    /\ log = <<>>
    /\ persisted = {}
    /\ file_exists = FALSE

\* append_to_csv(device_name, url); i counts the calls and raw_data keeps the
\* arguments of the last one
LedgerAppend ==
    /\ pc \in {"ledger_ready", "ledger_loaded"}
    /\ i < MaxAppends
    /\ \E name \in Names, url \in Urls :
         /\ csv_text' = append_to_csv(csv_exists, csv_text, name, url)
         /\ raw_data' = [url |-> url, name |-> name, image |-> None]
    /\ csv_exists' = TRUE
    /\ i' = i + 1
    /\ pc' = "ledger_appended"
    /\ UNCHANGED <<run, token, all_links, scraped_links, new_links_to_scrape,
                   formatted_data, image_filename, disk, img, sent, log, persisted>>
    /\ UNCHANGED file_exists

\* scraped_links = load_scraped_links_from_csv()
LedgerLoad ==
    /\ pc \in {"ledger_ready", "ledger_appended"}
    /\ scraped_links' = load_scraped_links_from_csv(csv_exists, csv_text)
    /\ pc' = "ledger_loaded"
    /\ UNCHANGED <<run, token, all_links, new_links_to_scrape, i, locals, files,
                   img, sent, log, persisted>>
    /\ UNCHANGED file_exists

LedgerNext ==
    \/ LedgerAppend
    \/ LedgerLoad

LedgerSpec == LedgerInit /\ [][LedgerNext]_vars

\* ------------------------------------------- two runs on one ledger file
\* Two processes run __main__ in the same directory at the same time. Both
\* read and write scraped_devices.csv and nothing in my.py locks it. Each
\* process has its own copy of the variables of __main__, so here pc,
\* all_links, scraped_links, new_links_to_scrape, i, raw_data and file_exists
\* are functions of the process. The record files and the notifications of
\* the two processes are not followed: of the steps between scrape_device
\* and append_to_csv only the way they leave the loop is kept.
Procs == {1, 2}

\* the ledger when the two processes start: not there yet, or created by an
\* earlier run that logged u
OverlapLedgers == { [exists |-> FALSE, text |-> <<>>],
                    [exists |-> TRUE,
                     text |-> append_to_csv(FALSE, <<>>, <<"A", "\"">>, <<"u">>)] }

\* the link lists without a repeated url
DistinctLinkLists ==
    {links \in LinkLists :
        \A a, b \in DOMAIN links : links[a] = links[b] => a = b}

OverlapInit ==
    /\ pc = [p \in Procs |-> "links"]
    /\ run = Cardinality(Procs)
    /\ token = FALSE
    /\ all_links = [p \in Procs |-> <<>>]
    /\ scraped_links = [p \in Procs |-> {}]
    /\ new_links_to_scrape = [p \in Procs |-> <<>>]
    /\ i = [p \in Procs |-> 0]
    /\ raw_data = [p \in Procs |-> NoRecord]
    /\ formatted_data = NoFormatted
    /\ image_filename = None
    /\ \E f \in OverlapLedgers : csv_exists = f.exists /\ csv_text = f.text
    /\ file_exists = [p \in Procs |-> FALSE]
    /\ raw_files = [f \in SafeNames |-> NoFile]
    /\ formatted_files = [f \in SafeNames |-> NoFile]
    /\ image_files = {}
    /\ img = "none"
    /\ sent = <<>>
    /\ log = <<>>
    /\ persisted = {}

\* what no step of the two processes touches in this specification
OverlapRest == <<run, token, formatted_data, image_filename, disk, img, sent,
                 log, persisted>>

\* all_links = scrape_latest_device_links(playwright); if not all_links
OverlapDiscover(p) ==
    /\ pc[p] = "links"
    /\ \E links \in DistinctLinkLists :
         /\ all_links' = [all_links EXCEPT ![p] = links]
         /\ pc' = [pc EXCEPT ![p] = IF links = <<>> THEN "exit" ELSE "load"]
    /\ UNCHANGED <<scraped_links, new_links_to_scrape, i, raw_data, csv_exists,
                   csv_text, file_exists, OverlapRest>>

\* scraped_links = load...; new_links_to_scrape = [...]; if not new_links...
\* (the file only grows, so the test of os.path.exists and the read that
\* follows it see what one load at the time of the read sees)
OverlapLoad(p) ==
    /\ pc[p] = "load"
    /\ LET known == load_scraped_links_from_csv(csv_exists, csv_text)
           fresh == NewLinks(all_links[p], known)
       IN  /\ scraped_links' = [scraped_links EXCEPT ![p] = known]
           /\ new_links_to_scrape' = [new_links_to_scrape EXCEPT ![p] = fresh]
           /\ pc' = [pc EXCEPT ![p] = IF fresh = <<>> THEN "exit" ELSE "scrape"]
    /\ i' = [i EXCEPT ![p] = 1]
    /\ UNCHANGED <<all_links, raw_data, csv_exists, csv_text, file_exists,
                   OverlapRest>>

\* raw_data = scrape_device(context, link); if raw_data: ... up to the call
\* of append_to_csv
OverlapScrape(p) ==
    /\ pc[p] = "scrape"
    /\ \/ \E page \in Pages :
            /\ raw_data' = [raw_data EXCEPT ![p] =
                              [url |-> new_links_to_scrape[p][i[p]],
                               name |-> page.name, image |-> page.image,
                               specs |-> page.specs]]
            /\ pc' = [pc EXCEPT ![p] = "append"]
            /\ i' = i
       \/ \* scrape_device returned None
          /\ raw_data' = [raw_data EXCEPT ![p] = NoRecord]
          /\ pc' = [pc EXCEPT ![p] =
                      NextIteration(i[p], Len(new_links_to_scrape[p]))]
          /\ i' = [i EXCEPT ![p] = i[p] + 1]
       \/ \* scrape_device, open or json.dump raised
          /\ raw_data' = [raw_data EXCEPT ![p] = NoRecord]
          /\ pc' = [pc EXCEPT ![p] = Uncaught]
          /\ i' = i
    /\ UNCHANGED <<all_links, scraped_links, new_links_to_scrape, csv_exists,
                   csv_text, file_exists, OverlapRest>>

\* append_to_csv: file_exists = os.path.exists(CSV_FILE_NAME)
AppendExists(p) ==
    /\ pc[p] = "append"
    /\ file_exists' = [file_exists EXCEPT ![p] = csv_exists]
    /\ pc' = [pc EXCEPT ![p] = "open"]
    /\ UNCHANGED <<all_links, scraped_links, new_links_to_scrape, i, raw_data,
                   csv_exists, csv_text, OverlapRest>>

\* append_to_csv: open(CSV_FILE_NAME, "a", ...) creates the file when absent
AppendOpen(p) ==
    /\ pc[p] = "open"
    /\ csv_exists' = TRUE
    /\ pc' = [pc EXCEPT ![p] = "write"]
    /\ UNCHANGED <<all_links, scraped_links, new_links_to_scrape, i, raw_data,
                   csv_text, file_exists, OverlapRest>>

\* append_to_csv: the rows are buffered by the file object and reach the
\* file, at its end, in one write when the with block closes it; then the
\* notification, and the for statement
AppendWrite(p) ==
    /\ pc[p] = "write"
    /\ csv_text' = append_to_csv(file_exists[p], csv_text, raw_data[p].name,
                                 new_links_to_scrape[p][i[p]])
    /\ file_exists' = [file_exists EXCEPT ![p] = FALSE]
    /\ pc' = [pc EXCEPT ![p] = NextIteration(i[p], Len(new_links_to_scrape[p]))]
    /\ i' = [i EXCEPT ![p] = i[p] + 1]
    /\ UNCHANGED <<all_links, scraped_links, new_links_to_scrape, raw_data,
                   csv_exists, OverlapRest>>

\* context.close(); browser.close(); print("--- Task Completed ---")
OverlapExit(p) ==
    /\ pc[p] = "exit"
    /\ pc' = [pc EXCEPT ![p] = "done"]
    /\ UNCHANGED <<all_links, scraped_links, new_links_to_scrape, i, raw_data,
                   csv_exists, csv_text, file_exists, OverlapRest>>

OverlapNext ==
    \E p \in Procs :
       \/ OverlapDiscover(p)
       \/ OverlapLoad(p)
       \/ OverlapScrape(p)
       \/ AppendExists(p)
       \/ AppendOpen(p)
       \/ AppendWrite(p)
       \/ OverlapExit(p)

OverlapSpec == OverlapInit /\ [][OverlapNext]_vars

\* ------------------------------------------------- what the claims speak of
LedgerRows == reader(csv_text)

\* the urls of the rows below the first row of the file
RowUrls == LET rows == LedgerRows IN {rows[r][2] : r \in 2..Len(rows)}

Events(item) == {log[k][2] : k \in {j \in DOMAIN log : log[j][1] = item}}

Terminal(item) == Events(item) \cap {"notify", "extract_failed", "persist_failed"} # {}

Attempted(item) == Events(item) \cap {"scrape", "extract_failed"} # {}

RunEnded == pc \in {"done", "aborted"}

IsPrefix(s, t) == Len(s) <= Len(t) /\ SubSeq(t, 1, Len(s)) = s

Before(a, b) == \E x, y \in DOMAIN log : x < y /\ log[x] = a /\ log[y] = b

\* ---------------------------------------------------------------- claims

\* C1: a ledger row comes to exist only by append_to_csv running for an item
\* whose raw-record file and normalized-record file were both written earlier
\* in the processing of that same item: whenever the ledger changes, the
\* change is the current item's row and the two files on disk hold the
\* current item's records; and every url in the ledger was persisted.
C1_LedgerOnlyAfterPersistence ==
    /\ [](\A k \in DOMAIN log :
            log[k][2] = "append" =>
               /\ Before(<<log[k][1], "write_raw">>, log[k])
               /\ Before(<<log[k][1], "write_fmt">>, log[k]))
    /\ [][csv_text' # csv_text =>
            /\ pc = "append"
            /\ raw_data.url = link
            /\ raw_files[safe_name] = Written(raw_data)
            /\ formatted_files[safe_name] = Written(formatted_data)
            /\ {<<i, "write_raw">>, <<i, "write_fmt">>}
                  \subseteq {log[k] : k \in DOMAIN log}
            /\ link \in persisted
            /\ LET rows == reader(csv_text')
               IN  /\ rows[Len(rows)] = <<raw_data.name, link>>
                   /\ {rows[r][2] : r \in 2..Len(rows)} \subseteq persisted]_vars

C1_Witness ==
    /\ \E k \in DOMAIN log : log[k][2] = "append"
    /\ RowUrls # {}

\* C2: starting from an absent ledger, after any sequence of sequential runs
\* no url occurs in two ledger rows, whatever list Link Discovery returns
\* (a list that repeats a url included).
C2_LedgerUrlsUnique ==
    LET rows == LedgerRows
    IN  \A a, b \in 2..Len(rows) : a # b => rows[a][2] # rows[b][2]

\* C3: a persistence failure of item k aborts only item k: no ledger row for
\* item k, and every later item of the work set is still extracted.
C3_PersistenceFailureIsolated ==
    \A k \in DOMAIN log :
        log[k][2] = "persist_failed" =>
           /\ "append" \notin Events(log[k][1])
           /\ RunEnded =>
                 \A later \in (log[k][1] + 1)..Len(new_links_to_scrape) :
                     Attempted(later)

\* C4: an extraction failure of item k is contained at the item: no record,
\* no file, no ledger row and no notification for item k, and the loop
\* continues with item k+1.
C4_ExtractionFailureContained ==
    \A k \in DOMAIN log :
        log[k][2] = "extract_failed" =>
           /\ Events(log[k][1]) = {"extract_failed"}
           /\ (k = Len(log) /\ pc # "scrape") => raw_data = NoRecord
           /\ RunEnded =>
                 \A later \in (log[k][1] + 1)..Len(new_links_to_scrape) :
                     Attempted(later)

\* C5: a failure of the image download/resize or of the notification send for
\* item k prevents neither the ledger append for item k nor the processing of
\* the later items: once item k's two record files are written its ledger
\* row is appended whatever the outcome of the download and of the send.
C5_SideEffectFailuresHarmless ==
    /\ pc = "aborted" => log[Len(log)][2] \notin {"image", "append", "notify"}
    /\ \A item \in DOMAIN new_links_to_scrape :
         {"write_raw", "write_fmt"} \subseteq Events(item) =>
            \/ "append" \in Events(item)
            \/ item = i /\ pc \in {"image", "append"}
    /\ pc = "notify" =>
         LET rows == LedgerRows IN rows[Len(rows)] = <<raw_data.name, link>>
    /\ \A k \in DOMAIN log :
         log[k][2] = "notify" /\ log[k][1] < Len(new_links_to_scrape) =>
            \/ k = Len(log) /\ pc = "scrape" /\ i = log[k][1] + 1
            \/ k < Len(log) /\ log[k + 1][1] = log[k][1] + 1

C5_Witness ==
    /\ img = "failed"
    /\ Len(sent) = 1
    /\ sent[1].api = "sendMessage"
    /\ ~sent[1].ok
    /\ pc = "scrape"
    /\ i = 2
    /\ new_links_to_scrape[1] \in RowUrls

\* C6: for every prior state of the ledger file (absent, zero-length,
\* header-only, holding rows), after append_to_csv(name, url) a following
\* load_scraped_links_from_csv() returns a set that contains url; a load on
\* an absent, empty or header-only ledger returns the empty set.
C6_LedgerRoundTrip ==
    pc = "ledger_loaded" =>
       /\ raw_data # NoRecord => raw_data.url \in scraped_links
       /\ raw_data = NoRecord => scraped_links = {}

\* C7: the work set is exactly the subsequence of the candidates whose url is
\* not in the loaded ledger, in discovery order: no known url, no fresh
\* candidate left out, no reordering.
C7_WorkSetIsOrderedDifference ==
    LET fresh == {j \in DOMAIN all_links : all_links[j] \notin scraped_links}
        position(j) == Cardinality({k \in fresh : k <= j})
    IN  pc # "load" =>
           /\ Len(new_links_to_scrape) = Cardinality(fresh)
           /\ \A j \in fresh : new_links_to_scrape[position(j)] = all_links[j]
           /\ \A k \in DOMAIN new_links_to_scrape :
                 new_links_to_scrape[k] \notin scraped_links

C7_Witness ==
    /\ Len(all_links) = 2
    /\ all_links[1] \in scraped_links
    /\ new_links_to_scrape = <<all_links[2]>>

\* C8: the ledger is append-only: across every operation the rows (and the
\* bytes) before it are a prefix of those after it, and the file is never
\* removed.
C8_LedgerAppendOnly ==
    [][/\ csv_exists => csv_exists'
       /\ \/ csv_text' = csv_text
          \/ /\ IsPrefix(csv_text, csv_text')
             /\ IsPrefix(LedgerRows, reader(csv_text'))]_vars

C8_Witness ==
    /\ run = 2
    /\ Len(LedgerRows) >= 3
    /\ \E k \in DOMAIN log : log[k][2] = "append"

Rank(step) ==
    CASE step \in {"scrape", "extract_failed"} -> 1
      [] step = "transform" -> 2
      [] step = "write_raw" -> 3
      [] step \in {"write_fmt", "persist_failed"} -> 4
      [] step = "image" -> 5
      [] step = "append" -> 6
      [] step = "notify" -> 7

\* C9: the items are processed one at a time in discovery order; within an
\* item the steps come in the order extract, normalize, persist, ledger
\* append, notify; no step of item k+1 starts before item k has completed
\* its last step or failed.
C9_SequentialInOrder ==
    /\ log # <<>> => log[1][1] = 1
    /\ (raw_data # NoRecord /\ i \in DOMAIN new_links_to_scrape /\ pc # "scrape")
          => raw_data.url = new_links_to_scrape[i]
    /\ \A a, b \in DOMAIN log :
         a < b =>
            /\ log[a][1] <= log[b][1]
            /\ b = a + 1 => log[b][1] <= log[a][1] + 1
            /\ log[a][1] = log[b][1] =>
                  /\ Rank(log[a][2]) < Rank(log[b][2])
                  /\ log[a][2] \notin {"extract_failed", "persist_failed"}
            /\ log[a][1] < log[b][1] =>
                  \E c \in a..(b - 1) :
                      /\ log[c][1] = log[a][1]
                      /\ log[c][2] \in {"notify", "extract_failed", "persist_failed"}

C9_Witness ==
    /\ Len(log) = 14
    /\ log[7] = <<1, "notify">>
    /\ log[14] = <<2, "notify">>

\* C10: once link discovery has returned the run completes: whatever per-item
\* failures occur, the run ends only at the end of the batch, with every
\* item of the work set in a terminal state.
C10_RunCompletes ==
    (run > 0 /\ RunEnded) =>
       /\ pc = "done"
       /\ \A item \in DOMAIN new_links_to_scrape : Terminal(item)

\* C11: with the credentials configured, a failed sendPhoto is followed by a
\* sendMessage carrying the same name and url; after a successful sendPhoto
\* no sendMessage is made; at most one request of an item is delivered; and
\* no failure of either request leaves the function: the step after a
\* notification is the next link or the end of the batch.
C11_NotificationFallback ==
    /\ sent # <<>> => token
    /\ \A k \in DOMAIN sent :
         /\ sent[k].message = Message(raw_data.name, raw_data.url)
         /\ (sent[k].api = "sendPhoto" /\ ~sent[k].ok) =>
               /\ k < Len(sent)
               /\ sent[k + 1].api = "sendMessage"
               /\ sent[k + 1].message = sent[k].message
         /\ (sent[k].api = "sendPhoto" /\ sent[k].ok) => k = Len(sent)
         /\ sent[k].api = "sendMessage" => k = Len(sent)
    /\ Cardinality({k \in DOMAIN sent : sent[k].ok}) <= 1
    /\ (log # <<>> /\ log[Len(log)][2] = "notify") => pc \in {"scrape", "exit", "done"}

C11_Witness ==
    /\ Len(sent) = 2
    /\ sent[1].api = "sendPhoto" /\ ~sent[1].ok
    /\ sent[2].api = "sendMessage" /\ ~sent[2].ok
    /\ log[Len(log)] = <<1, "notify">>
    /\ pc = "scrape"

\* ------------------------------------------- what the normalizer claims speak of
\* the record has a row with this key in this table
Has(category, key) ==
    /\ category \in DOMAIN raw_data.specs
    /\ key \in DOMAIN raw_data.specs[category]

\* the cell of that row, "" when there is none
Value(category, key) ==
    IF Has(category, key) THEN raw_data.specs[category][key] ELSE <<>>

\* the call of transform_gsmarena_to_formatted has returned
Normalized == pc = "write_raw" /\ log[Len(log)] = <<1, "transform">>

Sections == {"Camera", "Design", "Battery", "Display", "Cellular", "Hardware",
             "Multimedia", "Connectivity & Features"}

\* the output for a record without any spec table
EmptyOutput == transform_gsmarena_to_formatted([specs |-> <<>>])

\* C12 as stated: for a record whose specs mapping is empty every field of
\* every section of the output is the empty string.
C12_EmptySpecsAllEmpty ==
    (Normalized /\ raw_data.specs = <<>>) =>
       \A s \in DOMAIN formatted_data : \A l \in DOMAIN formatted_data[s] :
           formatted_data[s][l] = <<>>

\* C12 amended: for a record whose specs mapping is empty every field of
\* every section is the empty string, except the three fields with a fixed
\* text (Design/Keys, Hardware/Device type, Multimedia/Screen mirroring) and
\* Hardware/Internal storage, which is " (UFS), not expandable".
C12_EmptySpecsDefaults ==
    (Normalized /\ raw_data.specs = <<>>) =>
       \A s \in DOMAIN formatted_data : \A l \in DOMAIN formatted_data[s] :
           formatted_data[s][l] =
              CASE <<s, l>> = <<"Design", "Keys:">> ->
                      <<"Right: Volume control, Lock/Unlock key">>
                [] <<s, l>> = <<"Hardware", "Device type:">> -> <<"Smartphone">>
                [] <<s, l>> = <<"Multimedia", "Screen mirroring:">> ->
                      <<"Wireless screen share">>
                [] <<s, l>> = <<"Hardware", "Internal storage:">> ->
                      <<" (UFS)", ", not expandable">>
                [] OTHER -> <<>>

C12_Witness ==
    /\ Normalized
    /\ raw_data.specs = <<>>
    /\ formatted_data["Camera"]["Rear:"] = <<>>
    /\ formatted_data["Hardware"]["RAM:"] = <<>>

\* C13: for every input record the output has exactly the eight section
\* names as keys and in each section exactly the label keys it has for a
\* record without data; every value is a string, an empty one where the
\* data is missing.
C13_SchemaShape ==
    Normalized =>
       /\ DOMAIN formatted_data = Sections
       /\ \A s \in Sections :
            /\ DOMAIN formatted_data[s] = DOMAIN EmptyOutput[s]
            /\ \A l \in DOMAIN formatted_data[s] :
                 DOMAIN formatted_data[s][l] = 1..Len(formatted_data[s][l])
       /\ \A l \in {"Rear:", "Main camera:", "Second camera:", "Third camera:"} :
            (\A key \in {<<"Triple">>, <<"Quad">>, <<"Dual">>, <<"Single">>} :
                ~Has("MAIN CAMERA", key)) => formatted_data["Camera"][l] = <<>>

C13_Witness ==
    /\ Normalized
    /\ Has("MAIN CAMERA", <<"Dual">>)
    /\ ~Has("MAIN CAMERA", <<"Single">>)
    /\ "MEMORY" \notin DOMAIN raw_data.specs
    /\ formatted_data["Camera"]["Second camera:"] # <<>>
    /\ formatted_data["Camera"]["Third camera:"] = <<>>

\* the first line of a cell
FirstLine(text) == split(text, NL)[1]

\* C14: the camera descriptor is the first non-empty value in the order
\* Quad, Triple, Dual, Single (most modules first), empty strings being
\* skipped; the front camera descriptor is the first non-empty value in the
\* order Dual, Single.
C14_MostPluralFirst ==
    Normalized =>
       LET chain == << <<"Quad">>, <<"Triple">>, <<"Dual">>, <<"Single">> >>
           filled == {j \in DOMAIN chain : Value("MAIN CAMERA", chain[j]) # <<>>}
           first == CHOOSE j \in filled : \A x \in filled : j <= x
           front == IF Value("SELFIE CAMERA", <<"Dual">>) # <<>>
                    THEN Value("SELFIE CAMERA", <<"Dual">>)
                    ELSE Value("SELFIE CAMERA", <<"Single">>)
       IN  /\ filled # {} =>
                formatted_data["Camera"]["Rear:"]
                   = FirstLine(Value("MAIN CAMERA", chain[first]))
           /\ filled = {} => formatted_data["Camera"]["Rear:"] = <<>>
           /\ formatted_data["Camera"]["Front:"] = front

\* C15: with non-empty values under both "Dual" and "Single" of MAIN CAMERA
\* and none under "Triple" or "Quad", Rear, Main camera, Second camera and
\* Third camera come from the lines of the "Dual" value; a line the value
\* does not have gives an empty field.
C15_DualBeforeSingle ==
    (/\ Normalized
     /\ Value("MAIN CAMERA", <<"Dual">>) # <<>>
     /\ Value("MAIN CAMERA", <<"Single">>) # <<>>
     /\ Value("MAIN CAMERA", <<"Triple">>) = <<>>
     /\ Value("MAIN CAMERA", <<"Quad">>) = <<>>) =>
       LET lines == split(Value("MAIN CAMERA", <<"Dual">>), NL)
           line(k) == IF k <= Len(lines) THEN strip(lines[k]) ELSE <<>>
       IN  /\ formatted_data["Camera"]["Rear:"] = lines[1]
           /\ formatted_data["Camera"]["Main camera:"] = line(1)
           /\ formatted_data["Camera"]["Second camera:"] = line(2)
           /\ formatted_data["Camera"]["Third camera:"] = line(3)

C15_Witness ==
    /\ Normalized
    /\ Value("MAIN CAMERA", <<"Dual">>) = CameraText("d", 1)
    /\ Value("MAIN CAMERA", <<"Single">>) = CameraText("s", 2)
    /\ Value("MAIN CAMERA", <<"Triple">>) = <<>>
    /\ Value("MAIN CAMERA", <<"Quad">>) = <<>>
    /\ formatted_data["Camera"]["Main camera:"] = strip(CameraLine("d", 1))
    /\ formatted_data["Camera"]["Second camera:"] = <<>>

\* the arguments get_spec is looked at with
LookupCategories == {"BODY", "SOUND", "MEMORY", "MISC"}
LookupKeys == {<<>>, <<" ">>, <<" ", " ">>, <<" ", " ", " ">>, <<NBSP>>, <<"SIM">>,
               <<"Card", " ", "slot">>, <<"Internal">>}
LookupDefaults == {<<>>, <<"n/a">>}

\* key with every pair of consecutive plain spaces turned into one NBSP
RECURSIVE Paired(_)
Paired(key) ==
    IF Len(key) >= 2 /\ key[1] = " " /\ key[2] = " "
    THEN <<NBSP>> \o Paired(SubSeq(key, 3, Len(key)))
    ELSE IF key = <<>> THEN <<>>
    ELSE <<key[1]>> \o Paired(Tail(key))

\* C16: get_spec(category, key, default) is specs[category][key'] when that
\* row is there, key' being key with every pair of consecutive plain spaces
\* replaced by one non-breaking space, and default when the category or the
\* key is absent; so the lookup with the key of two plain spaces (the
\* Resistance field) finds the row stored under the non-breaking space; and
\* the record is the same after the call as before.
C16_Lookup ==
    /\ [](Normalized =>
            /\ \A category \in LookupCategories, key \in LookupKeys,
                  default \in LookupDefaults :
                  get_spec(raw_data, category, key, default)
                     = IF Has(category, Paired(key))
                       THEN raw_data.specs[category][Paired(key)] ELSE default
            /\ Value("BODY", <<NBSP>>) # <<>> =>
                  formatted_data["Design"]["Resistance:"] = Value("BODY", <<NBSP>>))
    /\ [][raw_data' = raw_data]_vars

C16_Witness ==
    /\ Normalized
    /\ Value("BODY", <<NBSP>>) = <<"IP68">>
    /\ Has("BODY", <<>>)
    /\ Has("BODY", <<" ", " ">>)
    /\ formatted_data["Design"]["Resistance:"] = <<"IP68">>

\* a size lies at a..b: digits, white space if any, a unit
IsSize(s, a, b, units) ==
    /\ a < b /\ b <= Len(s)
    /\ s[b] \in units
    /\ \E m \in a..(b - 1) :
         /\ \A j \in a..m : s[j] \in Digits
         /\ \A j \in (m + 1)..(b - 1) : s[j] \in Whitespace

\* white space, and at least some, lies between b and c
Gap(s, b, c) == c > b + 1 /\ \A j \in (b + 1)..(c - 1) : s[j] \in Whitespace

\* a RAM size lies at a..b: a size in GB, white space, the word RAM
IsRam(s, a, b) ==
    /\ IsSize(s, a, b, {"GB"})
    /\ \E r \in (b + 2)..Len(s) : Gap(s, b, r) /\ s[r] = "RAM"

IsPair(s, a, b, c, d) ==
    IsSize(s, a, b, {"GB", "TB"}) /\ Gap(s, b, c) /\ IsRam(s, c, d)

\* the leftmost of the places (tuples that begin with a start position)
Leftmost(places) == CHOOSE p \in places : \A q \in places : p[1] <= q[1]

\* storage and RAM as the claim gives them: the first (storage, RAM) pair,
\* else the first storage size and the first RAM size, "" if there is none
ExpectedStorageRam(s) ==
    LET P == 1..Len(s)
        pairs == {p \in P \X P \X P \X P : IsPair(s, p[1], p[2], p[3], p[4])}
        sizes == {p \in P \X P : IsSize(s, p[1], p[2], {"GB", "TB"})}
        rams == {p \in P \X P : IsRam(s, p[1], p[2])}
    IN  IF pairs # {}
        THEN LET p == Leftmost(pairs)
             IN  [storage |-> SubSeq(s, p[1], p[2]), ram |-> SubSeq(s, p[3], p[4])]
        ELSE [storage |-> IF sizes = {} THEN <<>>
                          ELSE LET p == Leftmost(sizes) IN SubSeq(s, p[1], p[2]),
              ram |-> IF rams = {} THEN <<>>
                      ELSE LET p == Leftmost(rams) IN SubSeq(s, p[1], p[2])]

\* the Hardware fields for a given decision on the suffix
HardwareAsExpected(suffix) ==
    LET expected == ExpectedStorageRam(Value("MEMORY", <<"Internal">>))
    IN  /\ formatted_data["Hardware"]["RAM:"] = expected.ram
        /\ formatted_data["Hardware"]["Internal storage:"]
              = expected.storage \o <<" (UFS)">>
                   \o (IF suffix THEN <<", not expandable">> ELSE <<>>)

\* C17 as stated: storage and RAM come from the first (storage, RAM) pair of
\* MEMORY/Internal, else from the single-value patterns; Internal storage
\* ends in "not expandable" exactly when the Card slot row is absent or its
\* value is "no" in any case.
C17_HardwareSuffixAbsentOrNo ==
    Normalized =>
       HardwareAsExpected(\/ ~Has("MEMORY", <<"Card", " ", "slot">>)
                          \/ lower(Value("MEMORY", <<"Card", " ", "slot">>)) = <<"no">>)

\* C17 amended: storage and RAM come from the first (storage, RAM) pair of
\* MEMORY/Internal, else from the single-value patterns (each empty when
\* unmatched); Internal storage ends in "not expandable" exactly when the
\* Card slot row is absent, its value is empty, or its value is "no" in any
\* case.  "256GB 12GB RAM" with Card slot "No" gives RAM "12GB" and Internal
\* storage "256GB (UFS), not expandable".
C17_HardwareFields ==
    Normalized =>
       /\ HardwareAsExpected(\/ ~Has("MEMORY", <<"Card", " ", "slot">>)
                             \/ Value("MEMORY", <<"Card", " ", "slot">>) = <<>>
                             \/ lower(Value("MEMORY", <<"Card", " ", "slot">>)) = <<"no">>)
       /\ (/\ Value("MEMORY", <<"Internal">>)
                 = <<"2", "5", "6", "GB", " ", "1", "2", "GB", " ", "RAM">>
           /\ Value("MEMORY", <<"Card", " ", "slot">>) = <<"No">>) =>
              /\ formatted_data["Hardware"]["RAM:"] = <<"1", "2", "GB">>
              /\ formatted_data["Hardware"]["Internal storage:"]
                    = <<"2", "5", "6", "GB", " (UFS)", ", not expandable">>

C17_Witness ==
    /\ Normalized
    /\ Value("MEMORY", <<"Internal">>)
          = <<"2", "5", "6", "GB", " ", "1", "2", "GB", " ", "RAM">>
    /\ Value("MEMORY", <<"Card", " ", "slot">>) = <<"No">>
    /\ formatted_data["Hardware"]["RAM:"] = <<"1", "2", "GB">>

\* C18: every item that has a ledger row keeps its own record files: no step
\* of the processing of an item writes over the raw-record file that holds
\* the record of a different item (another url) that has a ledger row,
\* whatever the names of the two items; so after a run the file of every
\* item that has a ledger row still holds that item's data.
C18_OneFilePerItem ==
    [][\A f \in DOMAIN raw_files :
          (raw_files'[f] # raw_files[f] /\ raw_files[f].status = "written") =>
             \/ raw_files[f].data.url = link
             \/ raw_files[f].data.url \notin RowUrls]_vars

\* the urls that had a ledger row when this run started
PriorUrls ==
    LET rows == LedgerRows
        appended == Cardinality({k \in DOMAIN log : log[k][2] = "append"})
    IN  {rows[r][2] : r \in 2..(Len(rows) - appended)}

OverlapEnded == \A p \in Procs : pc[p] \in {"done", "aborted"}

\* the rows of the ledger that are the header row
HeaderRows == LET rows == LedgerRows IN {r \in DOMAIN rows : rows[r] = Header}

\* the rows of the ledger that are not the header row
DataRows == LET rows == LedgerRows IN {r \in DOMAIN rows : rows[r] # Header}

\* C21: when two runs overlap in time on the same ledger file, each doing
\* load, diff, then per-item append, then for every interleaving of their
\* load, existence-check and append steps, once both runs have ended a ledger
\* that holds any row holds exactly one header row, and no url stands in two
\* of its rows.
C21_OverlapLedgerSound ==
    LET rows == LedgerRows
    IN  (OverlapEnded /\ rows # <<>>) =>
           /\ Cardinality(HeaderRows) = 1
           /\ \A a, b \in DataRows :
                 (Len(rows[a]) > 1 /\ Len(rows[b]) > 1 /\ rows[a][2] = rows[b][2])
                    => a = b

====
